---- MODULE Spec2Model ----
(***************************************************************************)
(* Model of the em-cli command interpreter (em-cli.c / em-cli.h): the      *)
(* fixed-capacity command registry, the tokenizer, the dispatcher with its *)
(* function-local static cursor, and the built-in help/set/get handlers.   *)
(*                                                                         *)
(* C strings are sequences of one-character strings without their          *)
(* terminator; the terminator is the character read at index Len(s).       *)
(* Memory (the output buffer and what lies behind it) is a function from   *)
(* 0-based byte offsets to characters.                                     *)
(***************************************************************************)
EXTENDS Integers, Sequences, FiniteSets, TLC

(* ------------------------------------------------------------------ *)
(* em-cli.h                                                           *)
(* ------------------------------------------------------------------ *)
CLI_FALSE == 0
CLI_TRUE == 1
CLI_PASS == 1
CLI_MAX_COMMANDS == 10
CLI_WRITE_BUFFER_SIZE == 512

(* ------------------------------------------------------------------ *)
(* Bounds of the model                                                *)
(* ------------------------------------------------------------------ *)
\* longest line the tokenizer specification enumerates
MaxTokLen == 5
\* largest wanted_parameter the tokenizer specification asks for
MaxWanted == 3
\* number of registrations the dispatcher specification performs
MaxRegistered == 2
\* the first zero byte behind the buffer lies at most this far past its end
MaxSlack == 1

(* ------------------------------------------------------------------ *)
(* Characters and the fixed strings of em-cli.c                       *)
(* ------------------------------------------------------------------ *)
CHAR_SPACE == " "
CHAR_NULL == "NUL"
CHAR_CARRIAGE_RET == "\r"
CHAR_NEWLINE == "\n"
\* a byte nobody has written yet
JUNK == "?"
\* the NULL pointer, as an offset
NULL == -1

CLI_MSG_INCORRECT_PARAMS ==
  <<
    "I", "n", "c", "o", "r", "r", "e", "c", "t", " ", "c", "o", "m", "m",
    "a", "n", "d", " ", "p", "a", "r", "a", "m", "e", "t", "e", "r", "(",
    "s", ")", ".", " ", "E", "n", "t", "e", "r", " ", "\"", "h", "e", "l",
    "p", "\"", " ", "t", "o", " ", "v", "i", "e", "w", " ", "c", "o", "m",
    "m", "a", "n", "d", "s", ".", "\r", "\n", "\r", "\n"
  >>
CLI_MSG_NOT_RECOGNIZED ==
  <<
    "C", "o", "m", "m", "a", "n", "d", " ", "n", "o", "t", " ", "r", "e",
    "c", "o", "g", "n", "i", "z", "e", "d", ".", " ", "E", "n", "t", "e",
    "r", " ", "'", "h", "e", "l", "p", "'", " ", "t", "o", " ", "v", "i",
    "e", "w", " ", "c", "o", "m", "m", "a", "n", "d", "s", ".", "\r", "\n",
    "\r", "\n"
  >>
CLI_MSG_HELP_HEADER ==
  <<
    "A", "v", "a", "i", "l", "a", "b", "l", "e", " ", "c", "o", "m", "m",
    "a", "n", "d", "s", ":", "\r", "\n"
  >>
CLI_MSG_MISSING_PARAM ==
  <<
    "E", "r", "r", "o", "r", ":", " ", "M", "i", "s", "s", "i", "n", "g",
    " ", "p", "a", "r", "a", "m", "e", "t", "e", "r", "\r", "\n"
  >>

(* ------------------------------------------------------------------ *)
(* Reading a C string                                                 *)
(* ------------------------------------------------------------------ *)
\* s[i] in C: the terminator at Len(s), and behind it whatever byte
\* (garbage) the memory after the string happens to hold.
CharAt(s, i, garbage) ==
  IF i < Len(s) THEN s[i + 1]
  ELSE IF i = Len(s) THEN CHAR_NULL
  ELSE garbage

\* s[i] for an index that the reader never moves past the terminator
Ch(s, i) == CharAt(s, i, CHAR_NULL)

(* ------------------------------------------------------------------ *)
(* Tokenizer                                                          *)
(* ------------------------------------------------------------------ *)
RECURSIVE count_loop(_, _, _, _)
count_loop(s, p, param_count, is_prev_space) ==
  IF (CHAR_NULL # Ch(s, p)) /\ (CHAR_CARRIAGE_RET # Ch(s, p))
       /\ (CHAR_NEWLINE # Ch(s, p))
  THEN IF CHAR_SPACE = Ch(s, p)
       THEN IF CLI_PASS # is_prev_space
            THEN count_loop(s, p + 1, param_count + 1, CLI_PASS)
            ELSE count_loop(s, p + 1, param_count, is_prev_space)
       ELSE count_loop(s, p + 1, param_count, CLI_FALSE)
  ELSE IF CLI_PASS = is_prev_space THEN param_count - 1 ELSE param_count

\* the count without the adjustment for a line that ends with spaces
RECURSIVE count_unadjusted(_, _, _, _)
count_unadjusted(s, p, param_count, is_prev_space) ==
  IF (CHAR_NULL # Ch(s, p)) /\ (CHAR_CARRIAGE_RET # Ch(s, p))
       /\ (CHAR_NEWLINE # Ch(s, p))
  THEN IF (CHAR_SPACE = Ch(s, p)) /\ (CLI_PASS # is_prev_space)
       THEN count_unadjusted(s, p + 1, param_count + 1, CLI_PASS)
       ELSE count_unadjusted(s, p + 1, param_count,
                             IF CHAR_SPACE = Ch(s, p) THEN CLI_PASS
                             ELSE CLI_FALSE)
  ELSE param_count

cli_get_parameter_count_unadjusted(p_command_string) ==
  count_unadjusted(p_command_string, 0, 0, CLI_FALSE)

cli_get_parameter_count(p_command_string) ==
  count_loop(p_command_string, 0, 0, CLI_FALSE)

\* "Skip current word": the first offset >= p holding null, space, CR or LF
RECURSIVE skip_word(_, _)
skip_word(s, p) ==
  IF (CHAR_NULL # Ch(s, p)) /\ (CHAR_SPACE # Ch(s, p))
       /\ (CHAR_CARRIAGE_RET # Ch(s, p)) /\ (CHAR_NEWLINE # Ch(s, p))
  THEN skip_word(s, p + 1)
  ELSE p

\* "Skip spaces": the first offset >= p not holding a space
RECURSIVE skip_spaces(_, _)
skip_spaces(s, p) ==
  IF (CHAR_NULL # Ch(s, p)) /\ (CHAR_SPACE = Ch(s, p))
  THEN skip_spaces(s, p + 1)
  ELSE p

RECURSIVE param_loop(_, _, _, _)
param_loop(s, p, params_found, wanted_parameter) ==
  IF params_found < wanted_parameter
  THEN LET q == skip_spaces(s, skip_word(s, p))
       IN  IF (CHAR_NULL # Ch(s, q)) /\ (CHAR_CARRIAGE_RET # Ch(s, q))
                /\ (CHAR_NEWLINE # Ch(s, q))
           THEN IF params_found + 1 = wanted_parameter
                THEN LET len == skip_word(s, q) - q
                     IN  [p_return_param |-> IF 0 = len THEN NULL ELSE q,
                          p_parameter_length |-> len]
                ELSE param_loop(s, q, params_found + 1, wanted_parameter)
           ELSE [p_return_param |-> NULL, p_parameter_length |-> 0]
  ELSE [p_return_param |-> NULL, p_parameter_length |-> 0]

cli_get_parameter(p_command_string, wanted_parameter) ==
  param_loop(p_command_string, 0, 0, wanted_parameter)

(* ------------------------------------------------------------------ *)
(* State                                                              *)
(* ------------------------------------------------------------------ *)
VARIABLES
  g_commands_array,    \* the registry slots 0 .. CLI_MAX_COMMANDS-1
  g_command_count,     \* number of registered commands
  command_index,       \* the static cursor of cli_process_command
  op,                  \* the call made last
  null_arg,            \* whether that call was handed a NULL pointer
  descriptor,          \* the descriptor handed to cli_register_command
  p_command_input,     \* the line handed to that call
  wanted_parameter,    \* the index handed to cli_get_parameter
  ret,                 \* what the call returned
  p_parameter_length,  \* the length cli_get_parameter stored
  p_write_buffer,      \* memory at and behind the output buffer
  write_buffer_len,    \* the capacity handed to the call
  write_hi,            \* 1 + the highest offset the call wrote (0: none)
  invoked,             \* registry slot whose handler the call ran, or NULL
  scanned,             \* whether the call scanned the registry
  found,               \* where that scan stopped (g_command_count: no match)
  input_hi             \* highest offset of the line the scan read, or NULL

vars ==
  << g_commands_array, g_command_count, command_index, op, null_arg,
     descriptor, p_command_input, wanted_parameter, ret, p_parameter_length,
     p_write_buffer, write_buffer_len, write_hi, invoked, scanned, found,
     input_hi >>

registry_vars == << g_commands_array, g_command_count >>
buffer_vars == << p_write_buffer, write_buffer_len, write_hi >>
dispatch_vars == << invoked, scanned, found, input_hi >>

\* a zero-initialised slot of g_commands_array
ZeroSlot ==
  [p_command |-> << >>, p_command_interpreter |-> "NULL",
   expected_parameter_count |-> 0]

InitProgram ==
  /\ g_commands_array = [i \in 0 .. CLI_MAX_COMMANDS - 1 |-> ZeroSlot]
  /\ g_command_count = 0
  /\ command_index = 0

InitCall ==
  /\ op = "init"
  /\ null_arg = FALSE
  /\ descriptor = ZeroSlot
  /\ wanted_parameter = 0
  /\ ret = 0
  /\ p_parameter_length = 0
  /\ p_write_buffer = << >>
  /\ write_buffer_len = 0
  /\ write_hi = 0
  /\ invoked = NULL
  /\ scanned = FALSE
  /\ found = NULL
  /\ input_hi = NULL

\* The variables that describe the last call hold what that call was handed
\* and did; a call that has no line, no index or no buffer leaves them blank.
NoLine == p_command_input' = << >>
NoDescriptor == descriptor' = ZeroSlot
NoTokenizerResult == wanted_parameter' = 0 /\ p_parameter_length' = 0
NoBuffer == p_write_buffer' = << >> /\ write_buffer_len' = 0 /\ write_hi' = 0
NoDispatch ==
  invoked' = NULL /\ scanned' = FALSE /\ found' = NULL /\ input_hi' = NULL

(* ------------------------------------------------------------------ *)
(* Memory and the C library calls the handlers make                   *)
(* ------------------------------------------------------------------ *)
Max(a, b) == IF a >= b THEN a ELSE b
Min(a, b) == IF a <= b THEN a ELSE b

\* n copies of the character c (none when n <= 0)
Fill(c, n) == [i \in 1 .. Max(n, 0) |-> c]

\* The memory a caller hands in with a buffer of the given capacity: the
\* buffer holds no zero byte, and the first zero byte behind it lies slack
\* bytes past its end. The byte at offset i is b[i + 1]; hi is 1 + the
\* highest offset written so far.
CallerMemory(capacity, slack) ==
  [b |-> Fill(JUNK, capacity + slack) \o << CHAR_NULL >>, hi |-> 0]

\* store the characters of text at offsets from, from+1, ...
mem_write(m, from, text) ==
  [b |-> SubSeq(m.b, 1, from) \o Fill(JUNK, from - Len(m.b)) \o text
           \o SubSeq(m.b, from + Len(text) + 1, Len(m.b)),
   hi |-> IF Len(text) = 0 THEN m.hi ELSE Max(m.hi, from + Len(text))]

\* the buffer, and the bytes behind it that the call overwrote
Visible(m, capacity) == SubSeq(m.b, 1, Max(capacity, m.hi))

memset(m, n) == mem_write(m, 0, Fill(CHAR_NULL, n))

\* copies src up to its terminator and pads with zero bytes: exactly n bytes
strncpy(m, src, n) ==
  mem_write(m, 0, SubSeq(src, 1, Min(n, Len(src)))
                    \o Fill(CHAR_NULL, n - Len(src)))

\* offset of the first zero byte of memory
RECURSIVE strlen_from(_, _)
strlen_from(m, i) ==
  IF i >= Len(m.b) THEN i
  ELSE IF m.b[i + 1] = CHAR_NULL THEN i
  ELSE strlen_from(m, i + 1)

strlen(m) == strlen_from(m, 0)

\* appends at most n characters of src at the first zero byte, then a zero
strncat(m, src, n) ==
  mem_write(m, strlen(m), SubSeq(src, 1, Min(n, Len(src))) \o << CHAR_NULL >>)

\* stores the whole text and its terminator, whatever the capacity
sprintf(m, text) == mem_write(m, 0, text \o << CHAR_NULL >>)

\* 0 when the first n characters (up to a terminator) agree, else non-zero
RECURSIVE strncmp_from(_, _, _, _)
strncmp_from(a, b, n, k) ==
  IF k >= n THEN 0
  ELSE IF Ch(a, k) # Ch(b, k) THEN 1
  ELSE IF Ch(a, k) = CHAR_NULL THEN 0
  ELSE strncmp_from(a, b, n, k + 1)

strncmp(a, b, n) == strncmp_from(a, b, n, 0)

(* ------------------------------------------------------------------ *)
(* Built-in command definitions and handlers                          *)
(* ------------------------------------------------------------------ *)
g_help_command ==
  [p_command |-> << "h", "e", "l", "p" >>,
   p_command_interpreter |-> "cli_help_interpreter",
   expected_parameter_count |-> -1]

g_set_command ==
  [p_command |-> << "s", "e", "t" >>,
   p_command_interpreter |-> "cli_set_interpreter",
   expected_parameter_count |-> 2]

g_get_command ==
  [p_command |-> << "g", "e", "t" >>,
   p_command_interpreter |-> "cli_get_interpreter",
   expected_parameter_count |-> 1]

\* a command of the application: its handler is code outside this library
user_command ==
  [p_command |-> << "g", "o" >>,
   p_command_interpreter |-> "user",
   expected_parameter_count |-> 0]

\* the size of the staging arrays param1, param2 and param
PARAM_SIZE == 50

\* the space check that forgets the length of the entry
help_fits_ignoring_entry(current_len, cmd_name_len, len) ==
  current_len < len

\* "Check buffer space before adding (need space for "  \r\n" + null)"
help_fits(current_len, cmd_name_len, len) ==
  (current_len + cmd_name_len + 5) < len

\* the three strncat calls that append one entry
help_append(m, p_cmd_name, n) ==
  strncat(strncat(strncat(m, << " ", " " >>, n), p_cmd_name, n),
          << "\r", "\n" >>, n)

RECURSIVE help_loop(_, _, _, _)
\* "current_len = strlen(p_write_buffer)" and the next round of the loop
help_continue(m, cmd_index, len) == help_loop(m, cmd_index, strlen(m), len)

help_loop(m, cmd_index, current_len, len) ==
  IF cmd_index < g_command_count
  THEN IF 0 = cmd_index
       THEN help_loop(m, cmd_index + 1, current_len, len)
       ELSE IF help_fits(current_len,
                         Len(g_commands_array[cmd_index].p_command), len)
            THEN help_continue(
                   help_append(m, g_commands_array[cmd_index].p_command,
                               len - current_len - 1),
                   cmd_index + 1, len)
            ELSE help_loop(m, cmd_index + 1, current_len, len)
  ELSE m

\* the header: memset, strncpy and the first strlen
help_header(m, len) == help_loop(m, 0, strlen(m), len)

cli_help_interpreter(m, len, p_command_string) ==
  [mem |-> help_header(strncpy(memset(m, len), CLI_MSG_HELP_HEADER, len), len),
   ret |-> CLI_FALSE]

\* the characters of the parameter that cli_get_parameter found
ParamText(s, r) ==
  SubSeq(s, r.p_return_param + 1, r.p_return_param + r.p_parameter_length)

\* the check that lets a parameter as long as the staging array through
fits_staging_inclusive(param_len) == param_len <= PARAM_SIZE

\* "(param_len < 50)": the parameter and its terminator fit the array
fits_staging(param_len) == param_len < PARAM_SIZE

\* the format with its two arguments in the wrong order
set_format_swapped(param1, param2) ==
  << "S", "e", "t", " " >> \o param2 \o << " ", "=", " " >> \o param1
    \o << "\r", "\n" >>

\* "Set %s = %s\r\n"
set_format(param1, param2) ==
  << "S", "e", "t", " " >> \o param1 \o << " ", "=", " " >> \o param2
    \o << "\r", "\n" >>

\* "Get %s: [value not implemented]\r\n"
get_format(param) ==
  << "G", "e", "t", " " >> \o param
    \o << ":", " ", "[", "v", "a", "l", "u", "e", " ", "n", "o", "t", " ",
          "i", "m", "p", "l", "e", "m", "e", "n", "t", "e", "d", "]",
          "\r", "\n" >>

cli_set_interpreter(m, len, p_command_string) ==
  LET m0 == memset(m, len)
      r1 == cli_get_parameter(p_command_string, 1)
      r2 == cli_get_parameter(p_command_string, 2)
  IN  IF (NULL # r1.p_return_param) /\ fits_staging(r1.p_parameter_length)
      THEN IF (NULL # r2.p_return_param) /\ fits_staging(r2.p_parameter_length)
           THEN [mem |-> sprintf(m0,
                                 set_format(ParamText(p_command_string, r1),
                                            ParamText(p_command_string, r2))),
                 ret |-> CLI_FALSE]
           ELSE [mem |-> strncpy(m0, CLI_MSG_MISSING_PARAM, len),
                 ret |-> CLI_FALSE]
      ELSE [mem |-> strncpy(m0, CLI_MSG_MISSING_PARAM, len), ret |-> CLI_FALSE]

cli_get_interpreter(m, len, p_command_string) ==
  LET m0 == memset(m, len)
      r1 == cli_get_parameter(p_command_string, 1)
  IN  IF (NULL # r1.p_return_param) /\ fits_staging(r1.p_parameter_length)
      THEN [mem |-> sprintf(m0, get_format(ParamText(p_command_string, r1))),
            ret |-> CLI_FALSE]
      ELSE [mem |-> strncpy(m0, CLI_MSG_MISSING_PARAM, len), ret |-> CLI_FALSE]

\* The call through p_command_interpreter of a registered descriptor. A
\* handler of the application leaves the buffer alone here and returns
\* what it likes (user_ret): more-output-pending or no-more-output.
p_command_interpreter(slot, m, len, p_command_string, user_ret) ==
  LET h == g_commands_array[slot].p_command_interpreter
  IN  IF h = "cli_help_interpreter"
      THEN cli_help_interpreter(m, len, p_command_string)
      ELSE IF h = "cli_set_interpreter"
      THEN cli_set_interpreter(m, len, p_command_string)
      ELSE IF h = "cli_get_interpreter"
      THEN cli_get_interpreter(m, len, p_command_string)
      ELSE [mem |-> m, ret |-> user_ret]

(* ------------------------------------------------------------------ *)
(* Registry                                                           *)
(* ------------------------------------------------------------------ *)
\* the guard with the comparison off by one
register_accepts_off_by_one == g_command_count <= CLI_MAX_COMMANDS

\* the guard of cli_register_command, for a non-NULL descriptor
register_accepts == g_command_count < CLI_MAX_COMMANDS

\* the slot written when the count is incremented before the copy
register_slot_after_increment == g_command_count + 1

\* "g_commands_array[g_command_count] = *p_command_to_register"
register_slot == g_command_count

cli_register_command(p_command_to_register) ==
  /\ op' = "register"
  /\ null_arg' = FALSE
  /\ descriptor' = p_command_to_register
  /\ IF register_accepts
     THEN /\ g_commands_array' =
               [g_commands_array EXCEPT ![register_slot] = p_command_to_register]
          /\ g_command_count' = g_command_count + 1
          /\ ret' = CLI_TRUE
     ELSE /\ UNCHANGED registry_vars
          /\ ret' = CLI_FALSE
  /\ NoLine /\ NoTokenizerResult /\ NoBuffer /\ NoDispatch
  /\ UNCHANGED command_index

\* cli_register_command(NULL)
cli_register_command_null ==
  /\ op' = "register"
  /\ null_arg' = TRUE
  /\ ret' = CLI_FALSE
  /\ NoDescriptor /\ NoLine /\ NoTokenizerResult /\ NoBuffer /\ NoDispatch
  /\ UNCHANGED << registry_vars, command_index >>

(* ------------------------------------------------------------------ *)
(* Dispatcher                                                         *)
(* ------------------------------------------------------------------ *)
\* the match without the check of the delimiter behind the name
command_matches_no_delimiter(line, p_registered_command, garbage) ==
  0 = strncmp(line, p_registered_command, Len(p_registered_command))

\* the match that trusts the delimiter and compares nothing
command_matches_delimiter_only(line, p_registered_command, garbage) ==
  CharAt(line, Len(p_registered_command), garbage)
    \in {CHAR_SPACE, CHAR_NULL, CHAR_CARRIAGE_RET, CHAR_NEWLINE}

\* "Check if command matches and has proper delimiter": the byte of the line
\* at the name's length, which lies behind the line's terminator when the
\* name is longer than the line, and then the comparison of the prefix
command_matches(line, p_registered_command, garbage) ==
  LET command_length == Len(p_registered_command)
      c == CharAt(line, command_length, garbage)
  IN  /\ \/ CHAR_SPACE = c
         \/ CHAR_NULL = c
         \/ CHAR_CARRIAGE_RET = c
         \/ CHAR_NEWLINE = c
      /\ 0 = strncmp(line, p_registered_command, command_length)

\* the validation that only rejects surplus parameters
arity_mismatch_surplus_only(d, line) ==
  /\ d.expected_parameter_count >= 0
  /\ cli_get_parameter_count(line) > d.expected_parameter_count

\* the validation without its test for a fixed parameter count
arity_mismatch_unguarded(d, line) ==
  cli_get_parameter_count(line) # d.expected_parameter_count

\* "Command found - validate parameter count"
arity_mismatch(d, line) ==
  /\ d.expected_parameter_count >= 0
  /\ cli_get_parameter_count(line) # d.expected_parameter_count

\* the loop without its break: the last descriptor that matches wins
scan_last_match(index, line, garbage, read_hi) ==
  LET matching ==
        {i \in index .. g_command_count - 1 :
           command_matches(line, g_commands_array[i].p_command, garbage)}
  IN  IF matching = {}
      THEN [command_index |-> g_command_count, is_processed |-> CLI_PASS,
            input_hi |-> read_hi]
      ELSE LET last == CHOOSE i \in matching : \A j \in matching : j <= i
           IN  [command_index |-> last,
                is_processed |->
                  IF arity_mismatch(g_commands_array[last], line)
                  THEN CLI_FALSE ELSE CLI_PASS,
                input_hi |-> read_hi]

\* the for loop over the registry: where it stops, what it leaves in
\* is_processed and how far into the line it read
RECURSIVE scan_from(_, _, _, _)
scan_from(index, line, garbage, read_hi) ==
  IF index < g_command_count
  THEN LET d == g_commands_array[index]
           hi == Max(read_hi, Len(d.p_command))
       IN  IF command_matches(line, d.p_command, garbage)
           THEN [command_index |-> index,
                 is_processed |->
                   IF arity_mismatch(d, line) THEN CLI_FALSE ELSE CLI_PASS,
                 input_hi |-> hi]
           ELSE scan_from(index + 1, line, garbage, hi)
  ELSE [command_index |-> index, is_processed |-> CLI_PASS, input_hi |-> read_hi]

\* the search of a dispatcher that tells a pending slot 0 from Idle by what
\* the handler returned
search_resuming_pending(line, garbage) ==
  IF (0 = command_index)
       /\ ~(op = "process" /\ invoked # NULL /\ ret = CLI_TRUE)
  THEN scan_from(0, line, garbage, NULL)
  ELSE [command_index |-> command_index, is_processed |-> CLI_PASS,
        input_hi |-> NULL]

\* "Search for matching command on first call"
search(line, garbage) ==
  IF 0 = command_index
  THEN scan_from(0, line, garbage, NULL)
  ELSE [command_index |-> command_index, is_processed |-> CLI_PASS,
        input_hi |-> NULL]

\* the test that only keeps the index inside the array
handler_slot_in_array(index) == index < CLI_MAX_COMMANDS

\* "(command_index < g_command_count)": the cursor is on a registered slot
handler_slot_registered(index) == index < g_command_count

cli_process_command(line, len, slack, garbage, user_ret) ==
  LET s == search(line, garbage)
      m == CallerMemory(len, slack)
  IN  /\ op' = "process"
      /\ null_arg' = FALSE
      /\ p_command_input' = line
      /\ write_buffer_len' = len
      /\ scanned' = (0 = command_index)
      /\ found' = IF 0 = command_index THEN s.command_index ELSE NULL
      /\ input_hi' = s.input_hi
      /\ IF CLI_FALSE = s.is_processed
         THEN LET out == strncpy(m, CLI_MSG_INCORRECT_PARAMS, len)
              IN  /\ p_write_buffer' = Visible(out, len)
                  /\ write_hi' = out.hi
                  /\ invoked' = NULL
                  /\ command_index' = s.command_index
                  /\ ret' = s.is_processed
         ELSE IF handler_slot_registered(s.command_index)
         THEN LET h == p_command_interpreter(s.command_index, m, len, line,
                                             user_ret)
              IN  /\ p_write_buffer' = Visible(h.mem, len)
                  /\ write_hi' = h.mem.hi
                  /\ invoked' = s.command_index
                  /\ command_index' =
                       IF CLI_FALSE = h.ret THEN 0 ELSE s.command_index
                  /\ ret' = h.ret
         ELSE LET out == strncpy(m, CLI_MSG_NOT_RECOGNIZED, len)
              IN  /\ p_write_buffer' = Visible(out, len)
                  /\ write_hi' = out.hi
                  /\ invoked' = NULL
                  /\ command_index' = s.command_index
                  /\ ret' = CLI_FALSE
      /\ NoDescriptor /\ NoTokenizerResult
      /\ UNCHANGED registry_vars

\* cli_process_command with a NULL line or a NULL buffer
cli_process_command_null ==
  /\ op' = "process"
  /\ null_arg' = TRUE
  /\ ret' = CLI_FALSE
  /\ NoDescriptor /\ NoLine /\ NoTokenizerResult /\ NoBuffer /\ NoDispatch
  /\ UNCHANGED << registry_vars, command_index >>

(* ------------------------------------------------------------------ *)
(* Dispatcher specification                                           *)
(* ------------------------------------------------------------------ *)
\* a line "set <key> <value>" with a key and a value of the given lengths
SetLine(key_len, value_len) ==
  << "s", "e", "t", " " >> \o Fill("k", key_len) \o << " " >>
    \o Fill("v", value_len)

Lines ==
  { << >>,
    << "h", "e", "l", "p", "\r", "\n" >>,
    << "h", "e", "l", "p", " ", "a", " ", "b" >>,
    << "s", "e", "t", " ", "a", " ", "b" >>,
    << "s", "e", "t", " ", "a" >>,
    << "s", "e", "t", "t" >>,
    << "s", "e" >>,
    << "g", "e", "t", " ", "a" >>,
    << "g", "o" >>,
    << "g", "o", " ", "a" >> }

Capacities == {8, 70}

\* what a read behind the line's terminator can find
GarbageBytes == {CHAR_NULL, CHAR_SPACE, JUNK}

CommandPool == {g_help_command, g_set_command, g_get_command, user_command}

Init ==
  /\ InitProgram
  /\ InitCall
  /\ p_command_input = << >>

Register ==
  /\ g_command_count < MaxRegistered
  /\ \E d \in CommandPool : cli_register_command(d)

\* The byte behind the line's terminator is an input only when the scan can
\* read it: when a registered name is longer than the line.
GarbageFor(line) ==
  IF \E i \in 0 .. g_command_count - 1 :
       Len(g_commands_array[i].p_command) > Len(line)
  THEN GarbageBytes ELSE {CHAR_NULL}

\* The zero byte behind the buffer is an input only when strlen can run
\* into it: when the call reaches the help handler and the header leaves no
\* terminator in the buffer.
SlackFor(s, len) ==
  IF /\ CLI_FALSE # s.is_processed
     /\ s.command_index < g_command_count
     /\ g_commands_array[s.command_index].p_command_interpreter
          = "cli_help_interpreter"
     /\ len <= Len(CLI_MSG_HELP_HEADER)
  THEN 0 .. MaxSlack ELSE {0}

\* What a handler of the application returns is an input only when the
\* call reaches one.
UserRetFor(s) ==
  IF /\ CLI_FALSE # s.is_processed
     /\ s.command_index < g_command_count
     /\ g_commands_array[s.command_index].p_command_interpreter = "user"
  THEN {CLI_FALSE, CLI_TRUE} ELSE {CLI_FALSE}

Process ==
  \E line \in Lines, len \in Capacities :
    \E garbage \in GarbageFor(line) :
      \E slack \in SlackFor(search(line, garbage), len),
         user_ret \in UserRetFor(search(line, garbage)) :
        cli_process_command(line, len, slack, garbage, user_ret)

Next ==
  \/ Register
  \/ Process
  \/ cli_process_command_null

Spec == Init /\ [][Next]_vars

(* ------------------------------------------------------------------ *)
(* The program of main.c: cli_init, then the main loop's dispatch calls *)
(* ------------------------------------------------------------------ *)
\* the state cli_init leaves: help, set and get registered, in that order
InitCli ==
  /\ g_commands_array =
       [i \in 0 .. CLI_MAX_COMMANDS - 1 |->
          IF i = 0 THEN g_help_command
          ELSE IF i = 1 THEN g_set_command
          ELSE IF i = 2 THEN g_get_command
          ELSE ZeroSlot]
  /\ g_command_count = 3
  /\ command_index = 0
  /\ op = "register"
  /\ null_arg = FALSE
  /\ descriptor = g_get_command
  /\ p_command_input = << >>
  /\ wanted_parameter = 0
  /\ ret = CLI_TRUE
  /\ p_parameter_length = 0
  /\ p_write_buffer = << >>
  /\ write_buffer_len = 0
  /\ write_hi = 0
  /\ invoked = NULL
  /\ scanned = FALSE
  /\ found = NULL
  /\ input_hi = NULL

\* the lines received: those of Lines, and set lines with parameters at and
\* around the size of the staging arrays
CliLines ==
  Lines \cup
    { << "s", "e", "t", " ", "a", " ", "b", "\r", "\n" >>,
      SetLine(PARAM_SIZE - 1, 1),
      SetLine(1, PARAM_SIZE - 1),
      SetLine(PARAM_SIZE, 1),
      SetLine(1, PARAM_SIZE) }

\* response_buffer of cli_process, and callers with smaller buffers
CliCapacities == {8, 32, CLI_WRITE_BUFFER_SIZE}

\* cli_process: the call of cli_process_command on a received line
ProcessCli ==
  \E line \in CliLines, len \in CliCapacities :
    \E garbage \in GarbageFor(line) :
      \E slack \in SlackFor(search(line, garbage), len) :
        cli_process_command(line, len, slack, garbage, CLI_FALSE)

NextCli == ProcessCli

\* the main loop calls cli_process for ever, and lines keep arriving
SpecCli == InitCli /\ [][NextCli]_vars /\ WF_vars(ProcessCli)

(* ------------------------------------------------------------------ *)
(* Dispatch over commands of the application whose names overlap       *)
(* ------------------------------------------------------------------ *)
\* a second command named "set", with another handler and another arity
shadow_set_command ==
  [p_command |-> << "s", "e", "t" >>,
   p_command_interpreter |-> "user",
   expected_parameter_count |-> 1]

\* a command whose name is the name "go", a space and more text
go_a_command ==
  [p_command |-> << "g", "o", " ", "a" >>,
   p_command_interpreter |-> "user",
   expected_parameter_count |-> 1]

OverlapPool ==
  {g_set_command, shadow_set_command, user_command, go_a_command}

OverlapLines ==
  { << "s", "e", "t", " ", "a", " ", "b" >>,
    << "s", "e", "t", " ", "a" >>,
    << "g", "o", " ", "a" >>,
    << "g", "o" >> }

OverlapCapacities == {8, 70}

RegisterOverlap ==
  /\ g_command_count < MaxRegistered
  /\ \E d \in OverlapPool : cli_register_command(d)

ProcessOverlap ==
  \E line \in OverlapLines, len \in OverlapCapacities :
    \E garbage \in GarbageFor(line) :
      \E user_ret \in UserRetFor(search(line, garbage)) :
        cli_process_command(line, len, 0, garbage, user_ret)

NextOverlap ==
  \/ RegisterOverlap
  \/ ProcessOverlap

SpecOverlap == Init /\ [][NextOverlap]_vars

(* ------------------------------------------------------------------ *)
(* Registry specification: registrations only, up to and past capacity *)
(* ------------------------------------------------------------------ *)
RegistryPool == {g_set_command, user_command}

RegisterAny == \E d \in RegistryPool : cli_register_command(d)

NextReg ==
  \/ RegisterAny
  \/ cli_register_command_null

SpecReg == Init /\ [][NextReg]_vars

(* ------------------------------------------------------------------ *)
(* Help specification: cli_help_interpreter called on any registry     *)
(* ------------------------------------------------------------------ *)
HelpCapacities == {0, 21, 29, 30, 36, 48}

\* a direct call of the public handler
CallHelp(len, slack) ==
  LET h == cli_help_interpreter(CallerMemory(len, slack), len, << >>)
  IN  /\ op' = "help"
      /\ null_arg' = FALSE
      /\ ret' = h.ret
      /\ p_write_buffer' = Visible(h.mem, len)
      /\ write_buffer_len' = len
      /\ write_hi' = h.mem.hi
      /\ NoDescriptor /\ NoLine /\ NoTokenizerResult /\ NoDispatch
      /\ UNCHANGED << registry_vars, command_index >>

Help ==
  \E len \in HelpCapacities :
    \E slack \in (IF len <= Len(CLI_MSG_HELP_HEADER) THEN 0 .. MaxSlack ELSE {0}) :
      CallHelp(len, slack)

NextHelp ==
  \/ RegisterAny
  \/ Help

SpecHelp == Init /\ [][NextHelp]_vars

(* ------------------------------------------------------------------ *)
(* Handler specification: cli_set_interpreter and cli_get_interpreter  *)
(* called on lines with parameters around the size of the staging      *)
(* arrays                                                              *)
(* ------------------------------------------------------------------ *)
HandlerParamLengths == {1, PARAM_SIZE - 1, PARAM_SIZE, PARAM_SIZE + 1}

\* the command alone, with a key, with a key and a value, and a line that
\* begins with a space
HandlerLines ==
  { << "s", "e", "t" >>, << " ", "a" >> }
    \cup {<< "s", "e", "t", " " >> \o Fill("k", a) : a \in HandlerParamLengths}
    \cup {SetLine(a, b) : a \in HandlerParamLengths, b \in HandlerParamLengths}

HandlerCapacities == {8, 32, 128}

\* a direct call of the public handler
CallSet(line, len) ==
  LET h == cli_set_interpreter(CallerMemory(len, 0), len, line)
  IN  /\ op' = "set"
      /\ null_arg' = FALSE
      /\ p_command_input' = line
      /\ ret' = h.ret
      /\ p_write_buffer' = Visible(h.mem, len)
      /\ write_buffer_len' = len
      /\ write_hi' = h.mem.hi
      /\ NoDescriptor /\ NoTokenizerResult /\ NoDispatch
      /\ UNCHANGED << registry_vars, command_index >>

\* a direct call of the public handler
CallGet(line, len) ==
  LET h == cli_get_interpreter(CallerMemory(len, 0), len, line)
  IN  /\ op' = "get"
      /\ null_arg' = FALSE
      /\ p_command_input' = line
      /\ ret' = h.ret
      /\ p_write_buffer' = Visible(h.mem, len)
      /\ write_buffer_len' = len
      /\ write_hi' = h.mem.hi
      /\ NoDescriptor /\ NoTokenizerResult /\ NoDispatch
      /\ UNCHANGED << registry_vars, command_index >>

Set == \E line \in HandlerLines, len \in HandlerCapacities : CallSet(line, len)

Get == \E line \in HandlerLines, len \in HandlerCapacities : CallGet(line, len)

NextHandlers ==
  \/ Set
  \/ Get

SpecHandlers == Init /\ [][NextHandlers]_vars

(* ------------------------------------------------------------------ *)
(* Tokenizer specification: every line over a small alphabet          *)
(* ------------------------------------------------------------------ *)
TokAlphabet == {"a", CHAR_SPACE, CHAR_CARRIAGE_RET, CHAR_NEWLINE}

TokLines == UNION {[1 .. n -> TokAlphabet] : n \in 0 .. MaxTokLen}

InitTok ==
  /\ InitProgram
  /\ InitCall
  /\ p_command_input \in TokLines

CallParameterCount ==
  /\ op' = "count"
  /\ ret' = cli_get_parameter_count(p_command_input)
  /\ wanted_parameter' = 0
  /\ p_parameter_length' = 0
  /\ UNCHANGED << registry_vars, command_index, null_arg, descriptor,
                  p_command_input, buffer_vars, dispatch_vars >>

CallGetParameter(i) ==
  LET r == cli_get_parameter(p_command_input, i)
  IN  /\ op' = "param"
      /\ wanted_parameter' = i
      /\ ret' = r.p_return_param
      /\ p_parameter_length' = r.p_parameter_length
      /\ UNCHANGED << registry_vars, command_index, null_arg, descriptor,
                      p_command_input, buffer_vars, dispatch_vars >>

NextTok ==
  \/ CallParameterCount
  \/ \E i \in -1 .. MaxWanted : CallGetParameter(i)

SpecTok == InitTok /\ [][NextTok]_vars

(* ------------------------------------------------------------------ *)
(* What a line consists of, read without the tokenizer                *)
(* ------------------------------------------------------------------ *)
LineTerminators == {CHAR_NULL, CHAR_CARRIAGE_RET, CHAR_NEWLINE}

\* offset of the first null, CR or LF of the line
LineEnd(s) ==
  CHOOSE e \in 0 .. Len(s) :
    /\ Ch(s, e) \in LineTerminators
    /\ \A k \in 0 .. e - 1 : Ch(s, k) \notin LineTerminators

\* offsets at which a word (a maximal run of non-space characters) starts
WordStarts(s) ==
  {p \in 0 .. LineEnd(s) - 1 :
     Ch(s, p) # CHAR_SPACE /\ (p = 0 \/ Ch(s, p - 1) = CHAR_SPACE)}

\* offset just behind the word starting at p
WordEnd(s, p) ==
  CHOOSE e \in p .. LineEnd(s) :
    /\ (e = LineEnd(s) \/ Ch(s, e) = CHAR_SPACE)
    /\ \A k \in p .. e - 1 : Ch(s, k) # CHAR_SPACE

\* number of words that follow the first word
WordsAfterFirst(s) ==
  IF WordStarts(s) = {} THEN 0 ELSE Cardinality(WordStarts(s)) - 1

\* the i-th word after the first word (1-based): its start and length
WordAfterFirst(s, i) ==
  IF i >= 1 /\ i <= WordsAfterFirst(s)
  THEN LET p == CHOOSE q \in WordStarts(s) :
                  Cardinality({r \in WordStarts(s) : r < q}) = i
       IN  [p_return_param |-> p, p_parameter_length |-> WordEnd(s, p) - p]
  ELSE [p_return_param |-> NULL, p_parameter_length |-> 0]

(* ------------------------------------------------------------------ *)
(* The dispatcher's contract, read without its code                   *)
(* ------------------------------------------------------------------ *)
DelimitersInLine == {CHAR_SPACE, CHAR_CARRIAGE_RET, CHAR_NEWLINE}

\* the line starts with the name, and the name ends there: the line ends
\* or goes on with a space, CR or LF
StartsWithCommand(line, name) ==
  /\ Len(line) >= Len(name)
  /\ SubSeq(line, 1, Len(name)) = name
  /\ (Len(line) = Len(name) \/ line[Len(name) + 1] \in DelimitersInLine)

Registered == 0 .. g_command_count - 1

\* the first registered command the line starts with; g_command_count: none
FirstMatch(line) ==
  IF \E i \in Registered : StartsWithCommand(line, g_commands_array[i].p_command)
  THEN CHOOSE i \in Registered :
         /\ StartsWithCommand(line, g_commands_array[i].p_command)
         /\ \A j \in 0 .. i - 1 :
              ~StartsWithCommand(line, g_commands_array[j].p_command)
  ELSE g_command_count

\* the command wants a fixed number of parameters and the line has another
WrongArity(line, i) ==
  /\ g_commands_array[i].expected_parameter_count >= 0
  /\ cli_get_parameter_count(line) # g_commands_array[i].expected_parameter_count

\* a buffer of the given capacity holding the message: cut to the capacity,
\* the rest of the buffer zero
Holding(msg, capacity) ==
  [k \in 1 .. capacity |-> IF k <= Len(msg) THEN msg[k] ELSE CHAR_NULL]

\* the last call was cli_process_command with a line and a buffer
Processed == op = "process" /\ ~null_arg

\* memory at the buffer holding the whole message and its terminator,
\* whatever the capacity; what is left of the buffer is zero
HoldingWhole(msg, capacity) ==
  [k \in 1 .. Max(capacity, Len(msg) + 1) |->
     IF k <= Len(msg) THEN msg[k] ELSE CHAR_NULL]

\* the characters of a word of the line
WordText(s, w) ==
  SubSeq(s, w.p_return_param + 1, w.p_return_param + w.p_parameter_length)

\* the response to "set <key> <value>"
SetResponse(key, value) ==
  << "S", "e", "t", " " >> \o key \o << " ", "=", " " >> \o value
    \o << "\r", "\n" >>

\* the line is "set <key> <value>": the word set and exactly two more words
IsSetKeyValue(line) ==
  /\ StartsWithCommand(line, << "s", "e", "t" >>)
  /\ WordsAfterFirst(line) = 2

(* ------------------------------------------------------------------ *)
(* Claims                                                             *)
(* ------------------------------------------------------------------ *)

\* C1: the registry count never exceeds CLI_MAX_COMMANDS, and a
\* cli_register_command call made at capacity or with a NULL descriptor
\* returns CLI_FALSE and leaves the count and every slot unchanged.
C1_RegistryBounded ==
  [][ /\ g_command_count' <= CLI_MAX_COMMANDS
      /\ (op' = "register"
            /\ (null_arg' \/ g_command_count = CLI_MAX_COMMANDS))
           => /\ ret' = CLI_FALSE
              /\ g_command_count' = g_command_count
              /\ g_commands_array' = g_commands_array ]_vars

\* a registration of a descriptor was refused at capacity
C1_Witness ==
  /\ op = "register" /\ ~null_arg /\ ret = CLI_FALSE
  /\ g_command_count = CLI_MAX_COMMANDS
  /\ \A i \in 0 .. CLI_MAX_COMMANDS - 1 : g_commands_array[i] # ZeroSlot

\* C2: a call made with the cursor Idle and a line that matches no
\* registered command stores the not-recognized message, returns
\* no-more-output and leaves the cursor at Idle (0).
C2_UnrecognizedLeavesIdle ==
  (Processed /\ scanned /\ FirstMatch(p_command_input) = g_command_count)
    => /\ p_write_buffer = Holding(CLI_MSG_NOT_RECOGNIZED, write_buffer_len)
       /\ ret = CLI_FALSE
       /\ command_index = 0

\* C3: after a call that ends with an arity mismatch the cursor is back at
\* Idle (0).
C3_ArityMismatchLeavesIdle ==
  (Processed /\ scanned /\ FirstMatch(p_command_input) < g_command_count
     /\ WrongArity(p_command_input, FirstMatch(p_command_input)))
    => command_index = 0

\* C4 as claimed, on the calls that follow a handler's more-output-pending:
\* whenever the line matches a command whose expected parameter count is
\* >= 0 and differs from the line's, the call stores the
\* incorrect-parameters message, returns CLI_FALSE and invokes no handler.
C4_ArityMismatchReported ==
  [][ (/\ Processed /\ invoked # NULL /\ ret = CLI_TRUE
       /\ op' = "process" /\ ~null_arg'
       /\ \E i \in Registered :
            /\ StartsWithCommand(p_command_input',
                                 g_commands_array[i].p_command)
            /\ WrongArity(p_command_input', i))
        => /\ p_write_buffer'
               = Holding(CLI_MSG_INCORRECT_PARAMS, write_buffer_len')
           /\ ret' = CLI_FALSE
           /\ invoked' = NULL ]_vars

\* C4 as amended: when the call is made with the cursor Idle and the first
\* registered command the line matches has an expected parameter count
\* >= 0 that differs from the line's, the call stores the
\* incorrect-parameters message (cut to the capacity), returns CLI_FALSE
\* and invokes no handler.
C4_IdleArityMismatchReported ==
  (Processed /\ scanned /\ FirstMatch(p_command_input) < g_command_count
     /\ WrongArity(p_command_input, FirstMatch(p_command_input)))
    => /\ p_write_buffer = Holding(CLI_MSG_INCORRECT_PARAMS, write_buffer_len)
       /\ write_hi <= write_buffer_len
       /\ ret = CLI_FALSE
       /\ invoked = NULL

\* "set a" was dispatched from Idle against a registered set command and the
\* whole message, with its terminator, is in the buffer
C4_Witness ==
  /\ Processed /\ scanned
  /\ p_command_input = << "s", "e", "t", " ", "a" >>
  /\ found < g_command_count
  /\ g_commands_array[found] = g_set_command
  /\ write_buffer_len > Len(CLI_MSG_INCORRECT_PARAMS)
  /\ SubSeq(p_write_buffer, 1, Len(CLI_MSG_INCORRECT_PARAMS) + 1)
       = CLI_MSG_INCORRECT_PARAMS \o << CHAR_NULL >>
  /\ ret = CLI_FALSE /\ invoked = NULL

\* C5: when a handler returns more-output-pending the cursor stays on its
\* command and the next cli_process_command call invokes the same handler
\* without scanning the registry; when it returns no-more-output the cursor
\* is reset to Idle (0).
C5_PendingHandlerIsReentered ==
  [][ /\ (Processed /\ invoked # NULL /\ ret = CLI_TRUE
            /\ op' = "process" /\ ~null_arg')
           => (invoked' = invoked /\ ~scanned')
      /\ (op' = "process" /\ ~null_arg' /\ invoked' # NULL /\ ret' = CLI_TRUE)
           => command_index' = invoked'
      /\ (op' = "process" /\ ~null_arg' /\ invoked' # NULL /\ ret' = CLI_FALSE)
           => command_index' = 0 ]_vars

\* C6: in Idle the scan takes a descriptor for a match if and only if the
\* line's first len(name) characters are the name and the character of the
\* line behind them is a space, null, CR or LF: of the descriptors the scan
\* looked at, it stopped at exactly the one the line starts with.
C6_MatchIsPrefixAndDelimiter ==
  (Processed /\ scanned)
    => /\ found \in 0 .. g_command_count
       /\ \A i \in Registered :
            i <= found =>
              ((i = found)
                 <=> StartsWithCommand(p_command_input,
                                       g_commands_array[i].p_command))

\* "sett" was dispatched from Idle against a registry holding "set" and
\* matched nothing
C6_Witness ==
  /\ Processed /\ scanned
  /\ p_command_input = << "s", "e", "t", "t" >>
  /\ \E i \in Registered : g_commands_array[i] = g_set_command
  /\ found = g_command_count

\* C7: a cli_process_command call, the handler it invokes included, never
\* writes a byte of the output buffer at an offset >= the capacity.
C7_NoWritePastCapacity ==
  Processed => write_hi <= write_buffer_len

\* C8: for every registry and every capacity cli_help_interpreter writes at
\* most capacity bytes.
C8_HelpStaysInBuffer ==
  op = "help" => write_hi <= write_buffer_len

\* the bytes the complete list would take
RECURSIVE help_list_length(_)
help_list_length(i) ==
  IF i >= g_command_count THEN 0
  ELSE Len(g_commands_array[i].p_command) + 4 + help_list_length(i + 1)

\* help ran on a full registry with a buffer that holds the header and some
\* entry but not the whole list
C8_Witness ==
  /\ op = "help"
  /\ g_command_count = CLI_MAX_COMMANDS
  /\ write_buffer_len > Len(CLI_MSG_HELP_HEADER)
  /\ Len(CLI_MSG_HELP_HEADER) + help_list_length(1) >= write_buffer_len
  /\ SubSeq(p_write_buffer, 1, Len(CLI_MSG_HELP_HEADER) + 2)
       = CLI_MSG_HELP_HEADER \o << " ", " " >>

\* C9: for every line cli_get_parameter_count returns the number of
\* space-delimited words that follow the first word of the line (runs of
\* spaces are one delimiter, trailing spaces add no word).
C9_CountIsWordsAfterFirst ==
  op = "count" => ret = WordsAfterFirst(p_command_input)

\* C10: for every line and index i cli_get_parameter returns the start and
\* the exact length of the i-th word after the first word, and NULL with
\* length 0 when there is no such word or i <= 0.
C10_ParameterIsIthWordAfterFirst ==
  op = "param" =>
    /\ ret = WordAfterFirst(p_command_input, wanted_parameter).p_return_param
    /\ p_parameter_length =
         WordAfterFirst(p_command_input, wanted_parameter).p_parameter_length

\* C13: a cli_register_command call with a descriptor and a count below
\* CLI_MAX_COMMANDS copies the descriptor into slot number count, increments
\* the count by exactly one, returns CLI_TRUE and leaves every other slot as
\* it was; so the slots below the count hold the accepted descriptors in the
\* order of their registration and the slots from the count on are still
\* zero.
C13_RegisterAppends ==
  [][ /\ (op' = "register" /\ ~null_arg' /\ g_command_count < CLI_MAX_COMMANDS)
           => /\ g_commands_array'[g_command_count] = descriptor'
              /\ \A i \in 0 .. CLI_MAX_COMMANDS - 1 :
                   i # g_command_count
                     => g_commands_array'[i] = g_commands_array[i]
              /\ g_command_count' = g_command_count + 1
              /\ ret' = CLI_TRUE
      /\ \A i \in 0 .. CLI_MAX_COMMANDS - 1 :
           (i >= g_command_count') <=> (g_commands_array'[i] = ZeroSlot) ]_vars

\* "go" was registered behind "set": both are in their slots, in that order
C13_Witness ==
  /\ op = "register" /\ ~null_arg /\ ret = CLI_TRUE
  /\ descriptor = user_command
  /\ g_command_count = 2
  /\ g_commands_array[0] = g_set_command
  /\ g_commands_array[1] = user_command
  /\ g_commands_array[2] = ZeroSlot

\* C11: with the set command (expected parameter count 2) registered and the
\* cursor Idle, a call on a line "set <key> <value>" with exactly two
\* parameters, each fitting the staging array, stores
\* "Set <key> = <value>\r\n" and its terminator at the start of the output
\* buffer, returns CLI_FALSE and leaves the cursor Idle.
C11_SetWritesResponse ==
  (/\ Processed /\ scanned
   /\ IsSetKeyValue(p_command_input)
   /\ FirstMatch(p_command_input) < g_command_count
   /\ g_commands_array[FirstMatch(p_command_input)] = g_set_command
   /\ WordAfterFirst(p_command_input, 1).p_parameter_length < PARAM_SIZE
   /\ WordAfterFirst(p_command_input, 2).p_parameter_length < PARAM_SIZE)
    => /\ p_write_buffer =
            HoldingWhole(
              SetResponse(
                WordText(p_command_input, WordAfterFirst(p_command_input, 1)),
                WordText(p_command_input, WordAfterFirst(p_command_input, 2))),
              write_buffer_len)
       /\ ret = CLI_FALSE
       /\ command_index = 0

\* "set a b" was dispatched from Idle into the buffer of cli_process
C11_Witness ==
  /\ Processed /\ scanned
  /\ p_command_input = << "s", "e", "t", " ", "a", " ", "b" >>
  /\ write_buffer_len = CLI_WRITE_BUFFER_SIZE
  /\ SubSeq(p_write_buffer, 1, 12)
       = << "S", "e", "t", " ", "a", " ", "=", " ", "b", "\r", "\n",
            CHAR_NULL >>
  /\ ret = CLI_FALSE /\ command_index = 0

\* C16: with help, set and get registered (handlers that always return
\* no-more-output), whatever lines are dispatched, further
\* cli_process_command calls bring the cursor back to Idle (0) again and
\* again.
C16_CursorReturnsToIdle == []<>(command_index = 0)

\* C18: when the command the line matches has a negative expected parameter
\* count, the call checks no arity and invokes the command's handler
\* whatever the number of parameters in the line.
C18_NegativeArityIsUnchecked ==
  (/\ Processed /\ scanned
   /\ FirstMatch(p_command_input) < g_command_count
   /\ g_commands_array[FirstMatch(p_command_input)].expected_parameter_count
        < 0)
    => /\ found = FirstMatch(p_command_input)
       /\ invoked = found

\* "help a b" was dispatched from Idle and the help handler ran
C18_Witness ==
  /\ Processed /\ scanned
  /\ p_command_input = << "h", "e", "l", "p", " ", "a", " ", "b" >>
  /\ cli_get_parameter_count(p_command_input) = 2
  /\ invoked # NULL
  /\ g_commands_array[invoked] = g_help_command
  /\ SubSeq(p_write_buffer, 1, 8)
       = << "A", "v", "a", "i", "l", "a", "b", "l" >>
  /\ ret = CLI_FALSE

\* every registered handler is one of the library's own
OnlyBuiltInHandlers ==
  \A i \in Registered : g_commands_array[i].p_command_interpreter # "user"

C14_SlotZeroPendingIsRescanned ==
  [][ (/\ Processed /\ invoked = 0 /\ ret = CLI_TRUE
       /\ op' = "process" /\ ~null_arg')
        => /\ command_index = 0
           /\ scanned'
           /\ found' = FirstMatch(p_command_input')
           /\ (invoked' # NULL => invoked' = found') ]_vars

\* the application's handler at slot 0 returned more-output-pending, with
\* another command registered behind it
C14_Witness ==
  /\ Processed /\ invoked = 0 /\ ret = CLI_TRUE
  /\ g_commands_array[0] = user_command
  /\ g_command_count = 2
  /\ g_commands_array[1] = g_set_command
  /\ command_index = 0

\* C15: while matching the line against the registered names
\* cli_process_command reads no character of the line at an index beyond
\* the line's null terminator.
C15_NoReadPastTerminator ==
  (Processed /\ scanned /\ input_hi # NULL)
    => input_hi <= Len(p_command_input)

\* the registered commands the line starts with
Matching(line) ==
  {i \in Registered :
     StartsWithCommand(line, g_commands_array[i].p_command)}

\* C17: the Idle scan stops at the first descriptor, in registration order,
\* that matches the line: when several registered descriptors match, the
\* one registered earliest is the one whose arity is checked and whose
\* handler is invoked.
C17_FirstMatchWins ==
  (Processed /\ scanned /\ Matching(p_command_input) # {})
    => /\ found \in Matching(p_command_input)
       /\ \A i \in Matching(p_command_input) : found <= i
       /\ IF WrongArity(p_command_input, found)
          THEN /\ invoked = NULL
               /\ p_write_buffer
                    = Holding(CLI_MSG_INCORRECT_PARAMS, write_buffer_len)
          ELSE invoked = found

\* "set a b" was dispatched against two commands named "set": the first
\* wants one parameter and the line is refused, though the second, the
\* built-in set, wants two
C17_Witness ==
  /\ Processed /\ scanned
  /\ p_command_input = << "s", "e", "t", " ", "a", " ", "b" >>
  /\ g_commands_array[0] = shadow_set_command
  /\ g_commands_array[1] = g_set_command
  /\ Matching(p_command_input) = {0, 1}
  /\ found = 0
  /\ invoked = NULL
  /\ ret = CLI_FALSE

\* the entry of a command in the help listing
HelpEntry(i) ==
  << " ", " " >> \o g_commands_array[i].p_command \o << "\r", "\n" >>

\* the listing from descriptor i on, behind the text listed so far: an entry
\* is appended when it and the terminating null fit in the capacity
RECURSIVE ListingOfWhatFits(_, _, _)
ListingOfWhatFits(i, text, capacity) ==
  IF i >= g_command_count THEN text
  ELSE IF Len(text) + Len(HelpEntry(i)) + 1 <= capacity
       THEN ListingOfWhatFits(i + 1, text \o HelpEntry(i), capacity)
       ELSE ListingOfWhatFits(i + 1, text, capacity)

\* C19: cli_help_interpreter leaves in the buffer the header followed, in
\* registration order, by the entry "  <name>\r\n" of exactly those
\* descriptors at index >= 1 whose entry, with its terminating null, fits in
\* the capacity that is left (an entry is skipped if and only if appending
\* it would overflow), and returns CLI_FALSE.
C19_HelpListsWhatFits ==
  op = "help" =>
    /\ ret = CLI_FALSE
    /\ p_write_buffer
         = Holding(ListingOfWhatFits(1, CLI_MSG_HELP_HEADER, write_buffer_len),
                   write_buffer_len)

\* the response to "get <key>"
GetResponse(key) ==
  << "G", "e", "t", " " >> \o key
    \o << ":", " ", "[", "v", "a", "l", "u", "e", " ", "n", "o", "t", " ",
          "i", "m", "p", "l", "e", "m", "e", "n", "t", "e", "d", "]",
          "\r", "\n" >>

\* parameter i of the line, as the tokenizer finds it
Parameter(line, i) == cli_get_parameter(line, i)

\* the parameter is there and has at most limit characters
PresentWithin(line, i, limit) ==
  /\ Parameter(line, i).p_return_param # NULL
  /\ Parameter(line, i).p_parameter_length <= limit

\* what the handlers leave when the parameters of at most limit characters
\* are the ones they accept: the missing-parameter message (cut to the
\* capacity) when a required parameter is absent or longer, else the
\* formatted response
HandlersAnswer(limit) ==
  /\ op = "set" =>
       /\ ret = CLI_FALSE
       /\ p_write_buffer =
            IF PresentWithin(p_command_input, 1, limit)
                 /\ PresentWithin(p_command_input, 2, limit)
            THEN HoldingWhole(
                   SetResponse(
                     WordText(p_command_input, Parameter(p_command_input, 1)),
                     WordText(p_command_input, Parameter(p_command_input, 2))),
                   write_buffer_len)
            ELSE Holding(CLI_MSG_MISSING_PARAM, write_buffer_len)
  /\ op = "get" =>
       /\ ret = CLI_FALSE
       /\ p_write_buffer =
            IF PresentWithin(p_command_input, 1, limit)
            THEN HoldingWhole(
                   GetResponse(
                     WordText(p_command_input, Parameter(p_command_input, 1))),
                   write_buffer_len)
            ELSE Holding(CLI_MSG_MISSING_PARAM, write_buffer_len)

\* C20 as claimed: cli_set_interpreter (parameters 1 and 2) and
\* cli_get_interpreter (parameter 1) write the missing-parameter message
\* and return CLI_FALSE exactly when a required parameter is absent or its
\* length exceeds 50 characters; otherwise they write the formatted
\* "Set ..." / "Get ..." response.
C20_MissingOrOverFifty == HandlersAnswer(PARAM_SIZE)

\* C20 as amended: the same with the limit the staging arrays leave room
\* for, 49 characters and the terminator: the message is written exactly
\* when a required parameter is absent or its length is 50 or more.
C20_MissingOrFiftyAndMore == HandlersAnswer(PARAM_SIZE - 1)

\* the set handler was called with a key of exactly 50 characters and a
\* value, and answered with the missing-parameter message
C20_Witness ==
  /\ op = "set"
  /\ p_command_input = SetLine(PARAM_SIZE, 1)
  /\ write_buffer_len > Len(CLI_MSG_MISSING_PARAM)
  /\ SubSeq(p_write_buffer, 1, Len(CLI_MSG_MISSING_PARAM) + 1)
       = CLI_MSG_MISSING_PARAM \o << CHAR_NULL >>
  /\ ret = CLI_FALSE

\* C21: the two tokenizer operations agree on every line:
\* cli_get_parameter(line, i) returns a parameter (not NULL) if and only if
\* 1 <= i <= cli_get_parameter_count(line), and cli_get_parameter_count
\* never returns a negative number.
C21_TokenizerOperationsAgree ==
  /\ op = "count" => ret >= 0
  /\ op = "param" =>
       ((ret # NULL)
          <=> (1 <= wanted_parameter
                 /\ wanted_parameter <= cli_get_parameter_count(p_command_input)))

\* on "a  a " parameter 1 was found, where the count is 1 though the line
\* holds two runs of spaces
C21_Witness ==
  /\ op = "param"
  /\ p_command_input = << "a", " ", " ", "a", " " >>
  /\ wanted_parameter = 1
  /\ ret = 3
  /\ p_parameter_length = 1
  /\ cli_get_parameter_count(p_command_input) = 1

\* C22: in every state that cli_register_command and cli_process_command
\* calls, in any order, can reach, the cursor satisfies
\* 0 <= command_index <= g_command_count, and a handler has only been
\* invoked from a slot with index < g_command_count, which holds a
\* registered descriptor and not a zero-initialised one.
C22_CursorWithinRegistry ==
  /\ 0 <= command_index
  /\ command_index <= g_command_count
  /\ (Processed /\ invoked # NULL)
       => /\ 0 <= invoked
          /\ invoked < g_command_count
          /\ g_commands_array[invoked] # ZeroSlot

\* the cursor was left behind the last command by an unmatched line, "go"
\* was then registered into that slot, and the next call, on "set a b", ran
\* the handler of "go" without a scan
C22_Witness ==
  /\ Processed /\ ~scanned
  /\ p_command_input = << "s", "e", "t", " ", "a", " ", "b" >>
  /\ g_command_count = 2
  /\ g_commands_array[0] = g_set_command
  /\ g_commands_array[1] = user_command
  /\ invoked = 1
  /\ command_index <= g_command_count

====
